---- MODULE Spec2Model ----
(***************************************************************************)
(* Image pipeline of les-missions-de-tonton-toto:                          *)
(*   netlify/functions/images.ts  - read path (parse, cache, transform)    *)
(*   upload handler (video-capable variant) - ingest path                  *)
(* JavaScript values are tagged tuples so that undefined, null, NaN,       *)
(* numbers and strings stay distinct, as they are in the code.             *)
(***************************************************************************)
EXTENDS Integers, Sequences, FiniteSets, TLC

(***************************************************************************)
(* JavaScript values                                                       *)
(***************************************************************************)
JUndefined == <<"undefined">>
JNull == <<"null">>
NaN == <<"NaN">>
Num(n) == <<"number", n>>
\* a string whose characters matter (numeric query parameters)
Chars(cs) == <<"chars", cs>>
\* a string compared as a whole (format names, fit names, keys)
Str(s) == <<"string", s>>
\* a value found on Object.prototype (e.g. FORMAT_MAP["constructor"])
ProtoFn(name) == <<"function", name>>

\* JavaScript truthiness (ToBoolean)
Truthy(v) ==
  CASE v[1] = "undefined" -> FALSE
    [] v[1] = "null" -> FALSE
    [] v[1] = "NaN" -> FALSE
    [] v[1] = "number" -> v[2] # 0
    [] v[1] = "chars" -> v[2] # <<>>
    [] v[1] = "string" -> v[2] # ""
    [] OTHER -> TRUE

\* a || b
Or(a, b) == IF Truthy(a) THEN a ELSE b

\* String(v), as used by template literals and Array.prototype.join
JsToString(v) ==
  CASE v[1] = "undefined" -> "undefined"
    [] v[1] = "null" -> "null"
    [] v[1] = "NaN" -> "NaN"
    [] v[1] = "number" -> ToString(v[2])
    [] v[1] = "string" -> v[2]
    [] v[1] = "function" -> "function " \o v[2] \o "() { [native code] }"

IsDigit(c) == c \in {"0", "1", "2", "3", "4", "5", "6", "7", "8", "9"}

DigitVal(c) ==
  CASE c = "0" -> 0 [] c = "1" -> 1 [] c = "2" -> 2 [] c = "3" -> 3
    [] c = "4" -> 4 [] c = "5" -> 5 [] c = "6" -> 6 [] c = "7" -> 7
    [] c = "8" -> 8 [] c = "9" -> 9

RECURSIVE SkipWhitespace(_)
SkipWhitespace(cs) ==
  IF cs # <<>> /\ cs[1] = " " THEN SkipWhitespace(Tail(cs)) ELSE cs

RECURSIVE LeadingDigits(_)
LeadingDigits(cs) ==
  IF cs # <<>> /\ IsDigit(cs[1])
    THEN <<cs[1]>> \o LeadingDigits(Tail(cs))
    ELSE <<>>

RECURSIVE DigitsValue(_, _)
DigitsValue(ds, acc) ==
  IF ds = <<>> THEN acc ELSE DigitsValue(Tail(ds), 10 * acc + DigitVal(ds[1]))

\* parseInt(s, 10): optional whitespace, optional sign, the longest digit
\* prefix; NaN when there is no digit.
ParseInt(cs) ==
  LET t == SkipWhitespace(cs)
      signed == t # <<>> /\ t[1] \in {"+", "-"}
      neg == t # <<>> /\ t[1] = "-"
      ds == LeadingDigits(IF signed THEN Tail(t) ELSE t)
  IN  IF ds = <<>> THEN NaN
      ELSE Num(IF neg THEN 0 - DigitsValue(ds, 0) ELSE DigitsValue(ds, 0))

\* Math.max / Math.min: NaN if either argument is NaN
MathMax(a, b) ==
  IF a = NaN \/ b = NaN THEN NaN
  ELSE IF a[2] >= b[2] THEN a ELSE b

MathMin(a, b) ==
  IF a = NaN \/ b = NaN THEN NaN
  ELSE IF a[2] <= b[2] THEN a ELSE b

(***************************************************************************)
(* images.ts: tables                                                       *)
(***************************************************************************)
TRANSFORMABLE_TYPES ==
  {"image/jpeg", "image/png", "image/gif", "image/webp", "image/avif"}

\* property names every object literal inherits from Object.prototype
ObjectPrototypeKeys == {"constructor", "toString", "valueOf"}

\* FORMAT_MAP[f], a property lookup on an object literal
FORMAT_MAP(f) ==
  CASE f = "webp" -> Str("webp")
    [] f = "avif" -> Str("avif")
    [] f = "jpeg" -> Str("jpeg")
    [] f = "jpg" -> Str("jpeg")
    [] f = "png" -> Str("png")
    [] f = "constructor" -> ProtoFn("Object")
    [] f \in ObjectPrototypeKeys -> ProtoFn(f)
    [] OTHER -> JUndefined

\* CONTENT_TYPE_MAP[format]; the key is the format converted to a string
CONTENT_TYPE_MAP(format) ==
  LET k == JsToString(format)
  IN  CASE k = "webp" -> Str("image/webp")
        [] k = "avif" -> Str("image/avif")
        [] k = "jpeg" -> Str("image/jpeg")
        [] k = "png" -> Str("image/png")
        [] k = "constructor" -> ProtoFn("Object")
        [] k \in ObjectPrototypeKeys -> ProtoFn(k)
        [] OTHER -> JUndefined

MAX_WIDTH == 2000
MAX_HEIGHT == 2000
MAX_QUALITY == 100
DEFAULT_QUALITY == 80

validFits == {"cover", "contain", "fill", "inside", "outside"}

\* acceptHeader?.includes(type): the header is null or a list of media ranges
Includes(acceptHeader, type) ==
  /\ acceptHeader[1] = "header"
  /\ \E i \in 1..Len(acceptHeader[2]) : acceptHeader[2][i] = type

\* mutant: the lower clamp Math.max(1, ...) is forgotten
mutParseDimNoFloor(p, max) ==
  IF Truthy(p) THEN MathMin(ParseInt(p[2]), Num(max)) ELSE JUndefined

\* w ? Math.min(Math.max(1, parseInt(w, 10)), max) : undefined
ParseDim(p, max) ==
  IF Truthy(p)
    THEN MathMin(MathMax(Num(1), ParseInt(p[2])), Num(max))
    ELSE JUndefined

\* q ? Math.min(Math.max(1, parseInt(q, 10)), 100) : 80
ParseQuality(q) ==
  IF Truthy(q)
    THEN MathMin(MathMax(Num(1), ParseInt(q[2])), Num(MAX_QUALITY))
    ELSE Num(DEFAULT_QUALITY)

ParseFit(fitParam) ==
  IF Truthy(fitParam) /\ fitParam[2] \in validFits THEN fitParam[2] ELSE "cover"

\* mutant: image/webp is tested before image/avif
mutParseFormatWebpFirst(f, acceptHeader) ==
  IF Truthy(f) /\ Truthy(FORMAT_MAP(f[2])) THEN FORMAT_MAP(f[2])
  ELSE IF ~Truthy(f) THEN
    IF Includes(acceptHeader, "image/webp") THEN Str("webp")
    ELSE IF Includes(acceptHeader, "image/avif") THEN Str("avif")
    ELSE JUndefined
  ELSE JUndefined

\* lines 70-84
ParseFormat(f, acceptHeader) ==
  IF Truthy(f) /\ Truthy(FORMAT_MAP(f[2])) THEN FORMAT_MAP(f[2])
  ELSE IF ~Truthy(f) THEN
    IF Includes(acceptHeader, "image/avif") THEN Str("avif")
    ELSE IF Includes(acceptHeader, "image/webp") THEN Str("webp")
    ELSE JUndefined
  ELSE JUndefined

\* params: [w, h, q, fit, f], each JNull (absent) or a string
parseTransformOptions(params, acceptHeader) ==
  [width |-> ParseDim(params.w, MAX_WIDTH),
   height |-> ParseDim(params.h, MAX_HEIGHT),
   quality |-> ParseQuality(params.q),
   format |-> ParseFormat(params.f, acceptHeader),
   fit |-> ParseFit(params.fit)]

\* mutant: the fit segment is left out of the key
mutGenerateCacheKeyNoFit(originalKey, options) ==
  LET dims == IF Truthy(Or(options.width, options.height))
                THEN "-" \o JsToString(Or(options.width, Str("auto"))) \o "x"
                         \o JsToString(Or(options.height, Str("auto")))
                ELSE ""
      fmt == IF Truthy(options.format)
               THEN "-" \o JsToString(options.format)
               ELSE ""
  IN  "transformed/" \o originalKey \o dims
        \o "-q" \o JsToString(options.quality) \o fmt

\* lines 89-108: parts.join("-") written out segment by segment
generateCacheKey(originalKey, options) ==
  LET dims == IF Truthy(Or(options.width, options.height))
                THEN "-" \o JsToString(Or(options.width, Str("auto"))) \o "x"
                         \o JsToString(Or(options.height, Str("auto")))
                ELSE ""
      fmt == IF Truthy(options.format)
               THEN "-" \o JsToString(options.format)
               ELSE ""
  IN  "transformed/" \o originalKey \o dims
        \o "-q" \o JsToString(options.quality) \o fmt \o "-" \o options.fit

\* mutant: a quality other than the default also asks for a transformation
mutNeedsTransformationQuality(options) ==
  \/ Truthy(Or(Or(options.width, options.height), options.format))
  \/ options.quality # Num(DEFAULT_QUALITY)

\* mutant: the format is left out of the test
mutNeedsTransformationNoFormat(options) ==
  Truthy(Or(options.width, options.height))

needsTransformation(options) ==
  Truthy(Or(Or(options.width, options.height), options.format))

(***************************************************************************)
(* images.ts: the transform (sharp pipeline)                               *)
(***************************************************************************)
\* A payload is the uploaded bytes (id) and the encode steps applied since.
Bytes(id, pipe) == [id |-> id, pipe |-> pipe]

\* payloads sharp can decode; any other payload makes toBuffer() reject
DecodableIds == {"photo", "animation"}

getFormatFromContentType(contentType) ==
  CASE contentType = "image/jpeg" -> Str("jpeg")
    [] contentType = "image/png" -> Str("png")
    [] contentType = "image/webp" -> Str("webp")
    [] contentType = "image/avif" -> Str("avif")
    [] contentType = "image/gif" -> Str("gif")
    [] OTHER -> Str("jpeg")

\* options.format || getFormatFromContentType(contentType)
OutputFormat(options, contentType) ==
  Or(options.format, getFormatFromContentType(contentType))

\* CONTENT_TYPE_MAP[outputFormat] || contentType
OutputContentType(options, contentType) ==
  JsToString(Or(CONTENT_TYPE_MAP(OutputFormat(options, contentType)),
                Str(contentType)))

\* switch (outputFormat): webp, avif, png, and jpeg for everything else
Encoder(outputFormat) ==
  IF outputFormat \in {Str("webp"), Str("avif"), Str("png")}
    THEN outputFormat[2]
    ELSE "jpeg"

\* sharp validates its arguments when the pipeline is built:
\* resize(w, h) wants each given dimension to be a positive integer,
\* the encoders want quality to be an integer in 1..100.
ValidDim(v) == v = JUndefined \/ (v[1] = "number" /\ v[2] > 0)
ValidQuality(v) == v[1] = "number" /\ v[2] >= 1 /\ v[2] <= 100

\* TRUE when building the pipeline throws synchronously (lines 264-296)
PipelineThrows(options) ==
  \/ Truthy(Or(options.width, options.height))
       /\ ~(ValidDim(options.width) /\ ValidDim(options.height))
  \/ ~ValidQuality(options.quality)

\* the step the pipeline applies: resize only if a dimension is given
TransformStep(options, contentType) ==
  [resize |-> IF Truthy(Or(options.width, options.height))
                THEN <<options.width, options.height, options.fit,
                       "withoutEnlargement">>
                ELSE <<>>,
   codec |-> Encoder(OutputFormat(options, contentType)),
   quality |-> options.quality]

\* await transformer.toBuffer()
Transformed(data, options, contentType) ==
  Bytes(data.id, Append(data.pipe, TransformStep(options, contentType)))

(***************************************************************************)
(* Blob stores: a store is a function from the keys it holds to entries    *)
(***************************************************************************)
StoreGet(store, key) ==
  IF key \in DOMAIN store THEN <<store[key]>> ELSE <<>>

StoreSet(store, key, entry) ==
  [k \in DOMAIN store \cup {key} |-> IF k = key THEN entry ELSE store[k]]

(***************************************************************************)
(* Bounds and inputs                                                       *)
(***************************************************************************)
\* HTTP requests (reads and uploads together) in one behaviour
MaxCalls == 3

\* the invocations of the read handler that can be in flight together
ReqIds == {1, 2}

Param(text) == Chars(text)

NoParams == [w |-> JNull, h |-> JNull, q |-> JNull, fit |-> JNull, f |-> JNull]

\* query strings of the read requests
Queries ==
  { NoParams,
    [NoParams EXCEPT !.w = Param(<<"1", "0", "0">>), !.f = Str("webp")],
    [NoParams EXCEPT !.f = Str("webp")],
    [NoParams EXCEPT !.q = Param(<<"x">>), !.fit = Str("contain")],
    [NoParams EXCEPT !.q = Param(<<"5", "0">>), !.fit = Str("contain")],
    [NoParams EXCEPT !.w = Param(<<"a", "b", "c">>)],
    [NoParams EXCEPT !.w = Param(<<"1", "0", "0">>)],
    [NoParams EXCEPT !.f = Str("bmp")] }

NoAccept == <<"null">>
Accept(types) == <<"header", types>>

AcceptHeaders == { NoAccept, Accept(<<"image/avif", "image/webp", "*/*">>) }

\* request paths, split on "/"
Paths ==
  { <<"", "images">>,
    <<"", "images", "does-not-exist.jpg">>,
    <<"", "images", "uploads", "1-ab.webp">>,
    <<"", "images", "uploads", "1-ab.gif">>,
    <<"", "images", "uploads", "1-ab.mp4">> }

(***************************************************************************)
(* State                                                                   *)
(***************************************************************************)
(***************************************************************************)
(* src/hooks/useAnimationStateMachine.ts: the machine definition           *)
(***************************************************************************)
AnimationStates ==
  { "idle", "animatingHeader", "decidingContent", "animatingFeedback",
    "animatingLoading", "animatingNoMission", "animatingMission", "complete" }

AnimationEvents ==
  { "HEADER_READY", "HEADER_COMPLETE", "MISSION_LOADED", "LOADING_COMPLETE",
    "LOADING_COMPLETE_NO_MISSION", "SHOW_FEEDBACK", "SHOW_LOADING",
    "SHOW_NO_MISSION", "SHOW_MISSION", "ANIMATION_COMPLETE" }

\* the states that animate content in
ContentStates ==
  { "animatingFeedback", "animatingLoading", "animatingNoMission",
    "animatingMission" }

\* as animationMachineDefinition, except that MISSION_LOADED during the
\* header animation starts the mission animation
mutMachineMissionDuringHeader(state, event) ==
  CASE state = "idle" /\ event = "HEADER_READY" -> "animatingHeader"
    [] state = "animatingHeader" /\ event = "HEADER_COMPLETE" -> "decidingContent"
    [] state = "animatingHeader" /\ event = "MISSION_LOADED" -> "animatingMission"
    [] state = "decidingContent" /\ event = "SHOW_FEEDBACK" -> "animatingFeedback"
    [] state = "decidingContent" /\ event = "SHOW_LOADING" -> "animatingLoading"
    [] state = "decidingContent" /\ event = "SHOW_NO_MISSION" -> "animatingNoMission"
    [] state = "decidingContent" /\ event = "SHOW_MISSION" -> "animatingMission"
    [] state = "animatingFeedback" /\ event = "ANIMATION_COMPLETE" -> "complete"
    [] state = "animatingLoading" /\ event = "MISSION_LOADED" -> "animatingMission"
    [] state = "animatingLoading" /\ event = "LOADING_COMPLETE_NO_MISSION"
         -> "animatingNoMission"
    [] state = "animatingNoMission" /\ event = "ANIMATION_COMPLETE" -> "complete"
    [] state = "animatingMission" /\ event = "ANIMATION_COMPLETE" -> "complete"
    [] OTHER -> state

\* lines 24-70: states[state].on[event]; a state that has no entry for the
\* event ignores it
animationMachineDefinition(state, event) ==
  CASE state = "idle" /\ event = "HEADER_READY" -> "animatingHeader"
    [] state = "animatingHeader" /\ event = "HEADER_COMPLETE" -> "decidingContent"
    [] state = "animatingHeader" /\ event = "MISSION_LOADED" -> "animatingHeader"
    [] state = "animatingHeader" /\ event = "LOADING_COMPLETE" -> "animatingHeader"
    [] state = "decidingContent" /\ event = "SHOW_FEEDBACK" -> "animatingFeedback"
    [] state = "decidingContent" /\ event = "SHOW_LOADING" -> "animatingLoading"
    [] state = "decidingContent" /\ event = "SHOW_NO_MISSION" -> "animatingNoMission"
    [] state = "decidingContent" /\ event = "SHOW_MISSION" -> "animatingMission"
    [] state = "animatingFeedback" /\ event = "ANIMATION_COMPLETE" -> "complete"
    [] state = "animatingLoading" /\ event = "MISSION_LOADED" -> "animatingMission"
    [] state = "animatingLoading" /\ event = "LOADING_COMPLETE_NO_MISSION"
         -> "animatingNoMission"
    [] state = "animatingNoMission" /\ event = "ANIMATION_COMPLETE" -> "complete"
    [] state = "animatingMission" /\ event = "ANIMATION_COMPLETE" -> "complete"
    [] OTHER -> state

\* lines 83-87: contentStateRef as the hook creates it
InitialContentState ==
  [isLoading |-> TRUE, hasMission |-> FALSE, hasFeedback |-> FALSE]

\* lines 181-182, 237-238, 289-290: const maxAttempts = 10
maxAttempts == 10

\* the hook right after its first render:
\*   machine     the state of the machine, every event sent so far applied
\*   rendered    state.value of the last committed render, the one the
\*               callbacks and effects of that render closed over
\*   elements    the elements registered in the animation store
\*   headerTimeline, decideFrame, loadingFade, contentFor, contentAnim,
\*   attempts    the timelines, animation frames and retries in flight
\*   mounted     FALSE once an effect has thrown and React has unmounted
\*               the tree
\*   calls       number of calls made from outside the hook
\*   headerComplete  whether HEADER_COMPLETE has been sent
InitialAnim ==
  [machine |-> "idle", rendered |-> "idle", content |-> InitialContentState,
   elements |-> {}, headerTimeline |-> "none", decideFrame |-> FALSE,
   loadingFade |-> "hidden", contentFor |-> "none", contentAnim |-> "none",
   attempts |-> 0, headerComplete |-> FALSE, mounted |-> TRUE, calls |-> 0]

(***************************************************************************)
(* netlify/functions/submissions.ts: the table                             *)
(***************************************************************************)
\* an empty submissions table, no request handled yet
NoSubmissions == [rows |-> <<>>, resp |-> <<>>, requests |-> 0]

VARIABLES
  imageStore,   \* the "images" blob store
  cacheStore,   \* the "images-cache" blob store
  reqs,         \* the invocations of the read handler
  received,     \* number of read requests received so far
  cacheWrites,  \* the cacheStore.set calls in flight
  uploads,      \* number of upload requests handled
  uploadResp,   \* response of the last upload request, if any
  parseIn,      \* input of a stand-alone parseTransformOptions call
  parseOut,     \* its result, once computed
  anim,         \* the useAnimationStateMachine hook of the mounted page
  submissions   \* the submissions table and the last response of its handler

vars ==
  <<imageStore, cacheStore, reqs, received, cacheWrites, uploads, uploadResp,
    parseIn, parseOut, anim, submissions>>

\* the variables of the image pipeline, and those of the rest of the site
imageVars ==
  <<imageStore, cacheStore, reqs, received, cacheWrites, uploads, uploadResp,
    parseIn, parseOut>>
siteVars == <<anim, submissions>>

IdleReq ==
  [pc |-> "idle", id |-> 0, key |-> "", params |-> NoParams, accept |-> NoAccept,
   options |-> parseTransformOptions(NoParams, NoAccept),
   ops |-> <<>>, resp |-> <<>>, orig |-> <<>>, write |-> "none",
   after |-> {}, landed |-> {}]

Init ==
  /\ imageStore = <<>>
  /\ cacheStore = <<>>
  /\ reqs = [r \in ReqIds |-> IdleReq]
  /\ received = 0
  /\ cacheWrites = {}
  /\ uploads = 0
  /\ uploadResp = <<>>
  /\ parseIn = [params |-> NoParams, accept |-> NoAccept]
  /\ parseOut = <<>>
  /\ anim = InitialAnim
  /\ submissions = NoSubmissions

(***************************************************************************)
(* images.ts: the read handler                                             *)
(***************************************************************************)
CacheHeaders ==
  ("Cache-Control" :> "public, max-age=31536000, immutable")
    @@ ("Access-Control-Allow-Origin" :> "*")

\* new Response("Not found", { status: 404 })
NotFound == [status |-> 404, body |-> Str("Not found"), headers |-> <<>>]

\* mutant: the exception escapes and the platform answers with its error page
mutOnErrorEscapes ==
  [status |-> 500, body |-> Str("Internal Server Error"), headers |-> <<>>]

\* the top-level catch (lines 345-351)
OnError == NotFound

\* mutant: the HIT response is sent without the X-Cache header
mutHitResponseNoXCache(entry) ==
  [status |-> 200, body |-> <<"bytes", entry.data>>,
   headers |-> ("Content-Type" :>
                  JsToString(Or(entry.metadata.contentType, Str("image/jpeg"))))
               @@ CacheHeaders]

HitResponse(entry) ==
  [status |-> 200, body |-> <<"bytes", entry.data>>,
   headers |-> ("Content-Type" :>
                  JsToString(Or(entry.metadata.contentType, Str("image/jpeg"))))
               @@ CacheHeaders @@ ("X-Cache" :> "HIT")]

\* mutant: the pass-through response is labelled as a cache miss
mutPassThroughXCache(data, contentType) ==
  [status |-> 200, body |-> <<"bytes", data>>,
   headers |-> ("Content-Type" :> contentType) @@ CacheHeaders
               @@ ("X-Cache" :> "MISS")]

\* lines 235-241 and 248-254: the original, unchanged
PassThrough(data, contentType) ==
  [status |-> 200, body |-> <<"bytes", data>>,
   headers |-> ("Content-Type" :> contentType) @@ CacheHeaders]

\* mutant: the MISS response is sent without the X-Cache header
mutMissResponseNoXCache(data, contentType) ==
  [status |-> 200, body |-> <<"bytes", data>>,
   headers |-> ("Content-Type" :> contentType) @@ CacheHeaders]

\* lines 336-344
MissResponse(data, contentType) ==
  [status |-> 200, body |-> <<"bytes", data>>,
   headers |-> ("Content-Type" :> contentType) @@ CacheHeaders
               @@ ("X-Cache" :> "MISS")]

RECURSIVE Join(_, _)
Join(parts, sep) ==
  IF parts = <<>> THEN ""
  ELSE IF Len(parts) = 1 THEN parts[1]
  ELSE parts[1] \o sep \o Join(Tail(parts), sep)

\* Array.prototype.indexOf, zero-based, -1 when absent
IndexOf(parts, x) ==
  IF \E i \in 1..Len(parts) : parts[i] = x
    THEN (CHOOSE i \in 1..Len(parts) :
            parts[i] = x /\ \A j \in 1..(i - 1) : parts[j] # x) - 1
    ELSE 0 - 1

\* lines 127-130: the key is what follows the first "images" segment
ExtractKey(pathParts) ==
  LET keyIndex == IndexOf(pathParts, "images") + 1
  IN  Join(SubSeq(pathParts, keyIndex + 1, Len(pathParts)), "/")

\* mutant: the original is fetched before the cache is looked at
mutFirstAwaitOriginal(options) == "fetchOriginal"

\* lines 167-168 and 207: the store the handler reads first
FirstAwait(options) ==
  IF needsTransformation(options) THEN "checkCache" ELSE "fetchOriginal"

\* lines 114-170: up to the first await
Receive(r, pathParts, params, acceptHeader) ==
  LET key == ExtractKey(pathParts)
      options == parseTransformOptions(params, acceptHeader)
      started == [IdleReq EXCEPT !.id = received + 1, !.key = key,
                    !.params = params, !.accept = acceptHeader,
                    !.options = options,
                    !.after = {reqs[o].id : o \in {o \in ReqIds \ {r} :
                                                    reqs[o].pc = "done"}},
                    !.landed = {reqs[o].id : o \in {o \in ReqIds \ {r} :
                                                     reqs[o].write = "ok"}}]
  IN  /\ reqs[r].pc \in {"idle", "done"}
      /\ received + uploads < MaxCalls
      /\ received' = received + 1
      /\ reqs' = [reqs EXCEPT ![r] =
           IF ~Truthy(Str(key))
             THEN [started EXCEPT !.pc = "done", !.resp = <<NotFound>>]
           ELSE [started EXCEPT !.pc = FirstAwait(options)]]
      /\ UNCHANGED <<siteVars, imageStore, cacheStore, cacheWrites, uploads, uploadResp,
                     parseIn, parseOut>>

\* lines 172-204: await cacheStore.getWithMetadata(cacheKey); a rejected
\* read is logged by the inner catch and the handler goes on
CacheLookup(r, readFails) ==
  LET cacheKey == generateCacheKey(reqs[r].key, reqs[r].options)
      found == StoreGet(cacheStore, cacheKey)
  IN  /\ reqs[r].pc = "checkCache"
      /\ reqs' = [reqs EXCEPT ![r] =
           IF readFails
             THEN [@ EXCEPT !.pc = "fetchOriginal",
                     !.ops = Append(@, "cacheRead:error")]
           ELSE IF found = <<>>
             THEN [@ EXCEPT !.pc = "fetchOriginal",
                     !.ops = Append(@, "cacheRead:miss")]
           ELSE [@ EXCEPT !.pc = "done", !.ops = Append(@, "cacheRead:hit"),
                   !.resp = <<HitResponse(found[1])>>]]
      /\ UNCHANGED <<siteVars, imageStore, cacheStore, received, cacheWrites, uploads,
                     uploadResp, parseIn, parseOut>>

\* mutant: every original is taken to be a transformable image
mutIsTransformableTypeAlways(contentType) == TRUE

\* line 232: TRANSFORMABLE_TYPES.includes(contentType)
IsTransformableType(contentType) == contentType \in TRANSFORMABLE_TYPES

\* lines 207-296: await imageStore.getWithMetadata(key), then everything
\* up to await transformer.toBuffer()
FetchOriginal(r, readFails) ==
  LET found == StoreGet(imageStore, reqs[r].key)
      read == [reqs[r] EXCEPT !.ops = Append(@, "imageRead:found"),
                              !.orig = found]
      contentType ==
        JsToString(Or(found[1].metadata.contentType, Str("image/jpeg")))
  IN  /\ reqs[r].pc = "fetchOriginal"
      /\ reqs' = [reqs EXCEPT ![r] =
           IF readFails
             THEN [@ EXCEPT !.pc = "done", !.resp = <<OnError>>,
                     !.ops = Append(@, "imageRead:error")]
           ELSE IF found = <<>>
             THEN [@ EXCEPT !.pc = "done", !.resp = <<NotFound>>,
                     !.ops = Append(@, "imageRead:absent")]
           ELSE IF ~IsTransformableType(contentType)
             THEN [read EXCEPT !.pc = "done",
                     !.resp = <<PassThrough(found[1].data, contentType)>>]
           ELSE IF ~needsTransformation(reqs[r].options)
             THEN [read EXCEPT !.pc = "done",
                     !.resp = <<PassThrough(found[1].data, contentType)>>]
           ELSE IF PipelineThrows(reqs[r].options)
             THEN [read EXCEPT !.pc = "done", !.resp = <<OnError>>,
                     !.ops = Append(@, "transform:error")]
           ELSE [read EXCEPT !.pc = "transform"]]
      /\ UNCHANGED <<siteVars, imageStore, cacheStore, received, cacheWrites, uploads,
                     uploadResp, parseIn, parseOut>>

\* mutant: the cache write is started before toBuffer() is awaited, so it is
\* started also when the transform fails
mutTransformDoneWritesFirst(r) ==
  LET data == reqs[r].orig[1].data
      contentType ==
        JsToString(Or(reqs[r].orig[1].metadata.contentType, Str("image/jpeg")))
      out == Transformed(data, reqs[r].options, contentType)
      outType == OutputContentType(reqs[r].options, contentType)
      cacheKey == generateCacheKey(reqs[r].key, reqs[r].options)
      entry == [data |-> out, metadata |-> [contentType |-> Str(outType)]]
  IN  /\ reqs[r].pc = "transform"
      /\ reqs' = [reqs EXCEPT ![r] =
           IF data.id \notin DecodableIds
             THEN [@ EXCEPT !.pc = "done", !.resp = <<OnError>>,
                     !.ops = Append(@, "transform:error")]
             ELSE [@ EXCEPT !.pc = "done", !.write = "pending",
                     !.ops = @ \o <<"transform:ok", "cacheWrite">>,
                     !.resp = <<MissResponse(out, outType)>>]]
      /\ cacheWrites' = cacheWrites \cup
           {[id |-> reqs[r].id, key |-> cacheKey, entry |-> entry]}
      /\ UNCHANGED <<siteVars, imageStore, cacheStore, received, uploads, uploadResp,
                     parseIn, parseOut>>

\* lines 298-344: toBuffer() settles; on success the cache write is started
\* and the response is returned while it is in flight
TransformDone(r) ==
  LET data == reqs[r].orig[1].data
      contentType ==
        JsToString(Or(reqs[r].orig[1].metadata.contentType, Str("image/jpeg")))
      ran == reqs[r]
      out == Transformed(data, reqs[r].options, contentType)
      outType == OutputContentType(reqs[r].options, contentType)
      cacheKey == generateCacheKey(reqs[r].key, reqs[r].options)
      entry == [data |-> out, metadata |-> [contentType |-> Str(outType)]]
  IN  /\ reqs[r].pc = "transform"
      /\ IF data.id \notin DecodableIds
           THEN /\ reqs' = [reqs EXCEPT ![r] =
                     [ran EXCEPT !.pc = "done", !.resp = <<OnError>>,
                        !.ops = Append(@, "transform:error")]]
                /\ UNCHANGED cacheWrites
           ELSE /\ reqs' = [reqs EXCEPT ![r] =
                     [ran EXCEPT !.pc = "done", !.write = "pending",
                        !.ops = @ \o <<"transform:ok", "cacheWrite">>,
                        !.resp = <<MissResponse(out, outType)>>]]
                /\ cacheWrites' = cacheWrites \cup
                     {[id |-> reqs[r].id, key |-> cacheKey, entry |-> entry]}
      /\ UNCHANGED <<siteVars, imageStore, cacheStore, received, uploads, uploadResp,
                     parseIn, parseOut>>

\* lines 322-327: the promise of cacheStore.set settles, some time after
\* the response; a rejection is only logged
\* mutant: a rejected write replaces the response by the error response
mutSettledSurfacesFailure(req, writeFails) ==
  IF writeFails
    THEN [req EXCEPT !.write = "failed", !.resp = <<OnError>>]
    ELSE [req EXCEPT !.write = "ok"]

\* .then / .catch of the write: both only log
Settled(req, writeFails) ==
  [req EXCEPT !.write = IF writeFails THEN "failed" ELSE "ok"]

\* mutant: the write is reported as done but nothing is stored
mutCacheWriteSettleDrops(w, writeFails) ==
  /\ w \in cacheWrites
  /\ cacheWrites' = cacheWrites \ {w}
  /\ reqs' = [r \in ReqIds |->
       IF reqs[r].id = w.id THEN Settled(reqs[r], writeFails) ELSE reqs[r]]
  /\ UNCHANGED <<siteVars, imageStore, cacheStore, received, uploads, uploadResp,
                 parseIn, parseOut>>

CacheWriteSettle(w, writeFails) ==
  /\ w \in cacheWrites
  /\ cacheWrites' = cacheWrites \ {w}
  /\ cacheStore' = IF writeFails THEN cacheStore
                                 ELSE StoreSet(cacheStore, w.key, w.entry)
  /\ reqs' = [r \in ReqIds |->
       IF reqs[r].id = w.id THEN Settled(reqs[r], writeFails) ELSE reqs[r]]
  /\ UNCHANGED <<siteVars, imageStore, received, uploads, uploadResp, parseIn, parseOut>>

(***************************************************************************)
(* The upload handler (variant with video support)                         *)
(***************************************************************************)
MAX_IMAGE_SIZE == 5 * 1024 * 1024
MAX_VIDEO_SIZE == 100 * 1024 * 1024
ALLOWED_IMAGE_TYPES == {"image/jpeg", "image/png", "image/gif", "image/webp"}
ALLOWED_VIDEO_TYPES ==
  {"video/mp4", "video/webm", "video/quicktime", "video/x-m4v"}
\* mutant: application/pdf is let through
mutAllowedTypesWithPdf ==
  ALLOWED_IMAGE_TYPES \cup ALLOWED_VIDEO_TYPES \cup {"application/pdf"}

ALLOWED_TYPES == ALLOWED_IMAGE_TYPES \cup ALLOWED_VIDEO_TYPES
MAX_DIMENSION == 2000
UPLOAD_QUALITY == 85

\* an uploaded file; name is the file name split on "."
File(type, size, name, id) ==
  [type |-> type, size |-> size, name |-> name, id |-> id]

Files ==
  { File("image/jpeg", 1000, <<"cat", "jpg">>, "photo"),
    File("image/gif", 1000, <<"wave", "gif">>, "animation"),
    File("image/jpeg", 1000, <<"bad", "jpg">>, "garbage"),
    File("image/jpeg", MAX_IMAGE_SIZE + 1, <<"big", "jpg">>, "photo"),
    File("image/gif", 1000, <<"anim", "gif">>, "garbage"),
    File("video/mp4", 1000, <<"clip", "mp4">>, "movie"),
    File("application/pdf", 1000, <<"doc", "pdf">>, "document") }

Methods == {"OPTIONS", "GET", "POST"}
Timestamps == {1}
RandomIds == {"ab"}

\* lines 571-580: the 201 body is {success, url, key}, url = `/images/${key}`
UploadResponse(status, key) ==
  [status |-> status, key |-> key,
   url |-> IF status = 201 THEN "/images/" \o key ELSE ""]

\* lines 535-556: what is stored, its content type and the key's extension
Optimized(file) ==
  Bytes(file.id,
        <<[resize |-> <<Num(MAX_DIMENSION), Num(MAX_DIMENSION), "inside",
                        "withoutEnlargement">>,
           codec |-> "webp", quality |-> Num(UPLOAD_QUALITY)]>>)

\* mutant: the extension always comes from the file name
mutFinalExtFromName(file) ==
  JsToString(Or(Str(file.name[Len(file.name)]),
                IF file.type \in ALLOWED_VIDEO_TYPES
                  THEN Str("mp4") ELSE Str("jpg")))

\* lines 549 and 555: finalExt
FinalExt(file) ==
  IF file.type \in ALLOWED_IMAGE_TYPES /\ file.type # "image/gif"
    THEN "webp"
    ELSE JsToString(Or(Str(file.name[Len(file.name)]),
                       IF file.type \in ALLOWED_VIDEO_TYPES
                         THEN Str("mp4") ELSE Str("jpg")))

UploadKey(timestamp, randomId, ext) ==
  "uploads/" \o ToString(timestamp) \o "-" \o randomId \o "." \o ext

\* the whole upload handler (lines 466-591); fileArg is <<>> when the form
\* has no "file" field
Upload(method, fileArg, timestamp, randomId, setFails) ==
  LET file == fileArg[1]
      optimize == file.type \in ALLOWED_IMAGE_TYPES /\ file.type # "image/gif"
      maxSize == IF file.type \in ALLOWED_VIDEO_TYPES
                   THEN MAX_VIDEO_SIZE ELSE MAX_IMAGE_SIZE
      key == UploadKey(timestamp, randomId, FinalExt(file))
      entry == [data |-> IF optimize THEN Optimized(file) ELSE Bytes(file.id, <<>>),
                metadata |-> [contentType |->
                                Str(IF optimize THEN "image/webp" ELSE file.type),
                              originalName |-> file.name]]
      status ==
        IF method = "OPTIONS" THEN 204
        ELSE IF method # "POST" THEN 405
        ELSE IF fileArg = <<>> THEN 400
        ELSE IF file.type \notin ALLOWED_TYPES THEN 400
        ELSE IF file.size > maxSize THEN 400
        ELSE IF optimize /\ file.id \notin DecodableIds THEN 500
        ELSE IF setFails THEN 500
        ELSE 201
  IN  /\ received + uploads < MaxCalls
      /\ uploads' = uploads + 1
      /\ uploadResp' = <<UploadResponse(status, IF status = 201 THEN key ELSE "")>>
      /\ imageStore' = IF status = 201 THEN StoreSet(imageStore, key, entry)
                                       ELSE imageStore
      /\ UNCHANGED <<siteVars, cacheStore, reqs, received, cacheWrites, parseIn, parseOut>>

(***************************************************************************)
(* Specifications                                                          *)
(***************************************************************************)
\* a new invocation takes the first slot never used, else a finished one
FreeSlot(r) ==
  IF \E o \in ReqIds : reqs[o].pc = "idle"
    THEN reqs[r].pc = "idle" /\ \A o \in ReqIds : reqs[o].pc = "idle" => r <= o
    ELSE reqs[r].pc = "done"

\* the requests of the concurrent specification: one stored image, the key
\* that extends it, and the queries that ask for a derivative
SharedPaths ==
  { <<"", "images", "uploads", "1-ab.webp">>,
    <<"", "images", "uploads", "1-ab.webp-100xauto">> }

SharedQueries ==
  { NoParams,
    [NoParams EXCEPT !.w = Param(<<"1", "0", "0">>), !.f = Str("webp")],
    [NoParams EXCEPT !.f = Str("webp")] }

SharedFiles == { File("image/jpeg", 1000, <<"cat", "jpg">>, "photo") }

UploadNext(methods, files) ==
  \E m \in methods, f \in {<<>>} \cup {<<x>> : x \in files},
     t \in Timestamps, id \in RandomIds, setFails \in BOOLEAN :
    Upload(m, f, t, id, setFails)

\* Spec: read requests in flight together, and uploads
Next ==
  \/ \E r \in ReqIds, p \in SharedPaths, q \in SharedQueries, a \in {NoAccept} :
       FreeSlot(r) /\ Receive(r, p, q, a)
  \/ \E r \in ReqIds, readFails \in BOOLEAN : CacheLookup(r, readFails)
  \/ \E r \in ReqIds, readFails \in BOOLEAN : FetchOriginal(r, readFails)
  \/ \E r \in ReqIds : TransformDone(r)
  \/ \E w \in cacheWrites, writeFails \in BOOLEAN : CacheWriteSettle(w, writeFails)
  \/ UploadNext({"POST"}, SharedFiles)

Spec == Init /\ [][Next]_vars

\* SpecLive: as Spec, with every cacheStore.set that was started settling
\* in the end (fulfilled or rejected); an invocation is observed until the
\* write it started has settled
NextLive ==
  \/ \E r \in ReqIds, p \in SharedPaths, q \in SharedQueries, a \in {NoAccept} :
       FreeSlot(r) /\ reqs[r].write # "pending" /\ Receive(r, p, q, a)
  \/ \E r \in ReqIds, readFails \in BOOLEAN : CacheLookup(r, readFails)
  \/ \E r \in ReqIds, readFails \in BOOLEAN : FetchOriginal(r, readFails)
  \/ \E r \in ReqIds : TransformDone(r)
  \/ \E w \in cacheWrites, writeFails \in BOOLEAN : CacheWriteSettle(w, writeFails)
  \/ UploadNext({"POST"}, SharedFiles)

WriteSettles ==
  \E w \in cacheWrites, writeFails \in BOOLEAN : CacheWriteSettle(w, writeFails)

SpecLive == Init /\ [][NextLive]_vars /\ WF_vars(WriteSettles)

\* SpecParse: parseTransformOptions alone, over a wide range of inputs
ParseWidths ==
  { JNull, Param(<<>>), Param(<<"0">>), Param(<<"-", "5">>),
    Param(<<"4", "0", "0">>), Param(<<"2", "0", "0", "0">>),
    Param(<<"2", "0", "0", "1">>), Param(<<"a", "b", "c">>),
    Param(<<"1", "2", "p", "x">>) }

ParseHeights == { JNull, Param(<<"-", "1">>), Param(<<"9", "9", "9", "9">>) }

ParseQualities ==
  { JNull, Param(<<"0">>), Param(<<"-", "5">>), Param(<<"5", "0">>),
    Param(<<"1", "0", "0">>), Param(<<"1", "0", "1">>), Param(<<"x">>) }

ParseFits ==
  { JNull, Str(""), Str("cover"), Str("contain"), Str("fill"), Str("inside"),
    Str("outside"), Str("stretch") }

ParseFormats ==
  { JNull, Str(""), Str("webp"), Str("avif"), Str("jpeg"), Str("jpg"),
    Str("png"), Str("bmp"), Str("constructor") }

ParseAccepts ==
  { NoAccept, Accept(<<"*/*">>), Accept(<<"image/webp", "*/*">>),
    Accept(<<"image/webp", "image/avif", "*/*">>),
    Accept(<<"image/avif", "*/*">>) }

InitParse ==
  /\ imageStore = <<>>
  /\ cacheStore = <<>>
  /\ reqs = [r \in ReqIds |-> IdleReq]
  /\ received = 0
  /\ cacheWrites = {}
  /\ uploads = 0
  /\ uploadResp = <<>>
  /\ parseIn \in [params : [w : ParseWidths, h : ParseHeights,
                             q : ParseQualities, fit : ParseFits,
                             f : ParseFormats],
                   accept : ParseAccepts]
  /\ parseOut = <<>>
  /\ anim = InitialAnim
  /\ submissions = NoSubmissions

\* line 144: const options = parseTransformOptions(url, acceptHeader)
Parse ==
  /\ parseOut = <<>>
  /\ parseOut' = <<parseTransformOptions(parseIn.params, parseIn.accept)>>
  /\ UNCHANGED <<siteVars, imageStore, cacheStore, reqs, received, cacheWrites, uploads,
                 uploadResp, parseIn>>

\* original keys of the stand-alone generateCacheKey calls
ParseKeys == { "uploads/1-ab.webp", "a-b" }

\* line 168: const cacheKey = generateCacheKey(key, options)
DeriveKey(originalKey) ==
  /\ Len(parseOut) = 1
  /\ parseOut' = Append(parseOut,
                        [originalKey |-> originalKey,
                         cacheKey |-> generateCacheKey(originalKey, parseOut[1])])
  /\ UNCHANGED <<siteVars, imageStore, cacheStore, reqs, received, cacheWrites, uploads,
                 uploadResp, parseIn>>

NextParse ==
  \/ Parse
  \/ \E k \in ParseKeys : DeriveKey(k)

SpecParse == InitParse /\ [][NextParse]_vars

\* SpecSeq: one read request at a time, over every path, query and header
NextSeq ==
  \/ \E p \in Paths, q \in Queries, a \in AcceptHeaders : Receive(1, p, q, a)
  \/ \E readFails \in BOOLEAN : CacheLookup(1, readFails)
  \/ \E readFails \in BOOLEAN : FetchOriginal(1, readFails)
  \/ TransformDone(1)
  \/ \E w \in cacheWrites, writeFails \in BOOLEAN : CacheWriteSettle(w, writeFails)
  \/ UploadNext(Methods, Files)

SpecSeq == Init /\ [][NextSeq]_vars

\* SpecUpload: uploads of every kind, then GETs of the URL an upload returned
UploadFiles ==
  { File("image/jpeg", 1000, <<"cat", "jpg">>, "photo"),
    File("image/png", MAX_IMAGE_SIZE, <<"shot", "png">>, "photo"),
    File("image/jpeg", MAX_IMAGE_SIZE + 1, <<"big", "jpg">>, "photo"),
    File("image/webp", 1000, <<"bad", "webp">>, "garbage"),
    File("image/gif", 1000, <<"wave", "gif">>, "animation"),
    File("image/gif", 1000, <<"anim", "">>, "animation"),
    File("video/mp4", MAX_IMAGE_SIZE + 1, <<"clip", "mp4">>, "movie"),
    File("video/mp4", MAX_VIDEO_SIZE + 1, <<"film", "mp4">>, "movie"),
    File("video/quicktime", 1000, <<"my clip">>, "movie"),
    File("application/pdf", 1000, <<"doc", "pdf">>, "document") }

UploadFileArgs == {<<>>} \cup {<<x>> : x \in UploadFiles}

UploadTimestamps == {1, 2}

\* the extensions a key can end in
UploadExts == {FinalExt(f) : f \in UploadFiles}

\* new URL(req.url).pathname: a path segment is kept as it is unless it holds
\* a character of the URL path percent-encode set, which is escaped; of the
\* segments here only "my clip" holds one (the space)
PercentEncode(segment) ==
  CASE segment = "my clip" -> "my%20clip"
    [] OTHER -> segment

\* lines 125-128: url.pathname.split("/") for a request of the URL that an
\* upload returned
PathnameParts(url) ==
  { <<"", "images", "uploads",
      ToString(x[1]) \o "-" \o x[2] \o "." \o PercentEncode(x[3])>> :
    x \in { y \in UploadTimestamps \X RandomIds \X UploadExts :
               url = "/images/" \o UploadKey(y[1], y[2], y[3]) } }

\* the URL of the last upload, if it was answered 201
ReturnedUrls ==
  IF uploadResp # <<>> /\ uploadResp[1].status = 201
    THEN {uploadResp[1].url} ELSE {}

NextUpload ==
  \/ \E m \in Methods, f \in UploadFileArgs, t \in UploadTimestamps,
        id \in RandomIds, setFails \in BOOLEAN :
       Upload(m, f, t, id, setFails)
  \/ \E url \in ReturnedUrls : \E p \in PathnameParts(url) :
       Receive(1, p, NoParams, NoAccept)
  \/ \E readFails \in BOOLEAN : FetchOriginal(1, readFails)

SpecUpload == Init /\ [][NextUpload]_vars

(***************************************************************************)
(* useAnimationStateMachine.ts: the hook                                   *)
(***************************************************************************)
\* the elements the page registers in the animation store: "header" is
\* svgBanner and heading, "missionContent" is subtitle and missionCard
AnimationElementNames ==
  { "header", "loadingState", "feedbackCard", "noMissionState",
    "missionContent" }

\* the element a content animation waits for (lines 185, 241, 293)
ContentElement(state) ==
  CASE state = "animatingFeedback" -> "feedbackCard"
    [] state = "animatingNoMission" -> "noMissionState"
    [] OTHER -> "missionContent"

\* line 89: send(event); the machine takes the event in the state it is in,
\* whatever state the caller rendered with
Send(a, event) ==
  [a EXCEPT !.machine = animationMachineDefinition(a.machine, event),
            !.headerComplete = a.headerComplete \/ event = "HEADER_COMPLETE"]

\* lines 187-207, 243-262, 295-321: tryAnimate once `attempts` is initialised
TryAnimate(a) ==
  IF ContentElement(a.contentFor) \in a.elements
    THEN [a EXCEPT !.contentAnim = "timeline"]
  ELSE IF a.attempts + 1 < maxAttempts
    THEN [a EXCEPT !.attempts = a.attempts + 1, !.contentAnim = "frame"]
  ELSE [Send(a, "ANIMATION_COMPLETE") EXCEPT
          !.attempts = a.attempts + 1, !.contentAnim = "done"]

\* lines 233 and 285: tryAnimate called before `let attempts = 0` and
\* `const maxAttempts = 10` (lines 237-238, 289-290) have run.  With the
\* element missing, `attempts++` throws a ReferenceError where the build keeps
\* `let` (the effect throws and React unmounts the tree, running the cleanup
\* of lines 326-332); where the build turns `let` into `var`, attempts is
\* NaN, `NaN < undefined` is false and the animation gives up at once.
TryAnimateBeforeInit(a, letThrows) ==
  IF ContentElement(a.contentFor) \in a.elements
    THEN [a EXCEPT !.contentAnim = "timeline"]
  ELSE IF letThrows
    THEN [a EXCEPT !.mounted = FALSE, !.contentAnim = "killed",
                   !.headerTimeline =
                      IF a.headerTimeline = "running" THEN "killed"
                      ELSE a.headerTimeline]
  ELSE [Send(a, "ANIMATION_COMPLETE") EXCEPT !.contentAnim = "done"]

\* the effects of lines 126-323 as run after a render with state.value = v
Effects(a, v, letThrows) ==
  CASE v = "animatingHeader" ->
         IF a.headerTimeline = "none" /\ "header" \in a.elements
           THEN [a EXCEPT !.headerTimeline = "running"]
         ELSE a
    [] v = "animatingLoading" ->
         IF "loadingState" \in a.elements
           THEN [a EXCEPT !.loadingFade = "running"]
         ELSE a
    [] v = "animatingFeedback" ->
         [a EXCEPT !.contentFor = v, !.contentAnim = "frame"]
    [] v \in {"animatingNoMission", "animatingMission"} ->
         IF "loadingState" \in a.elements /\ a.loadingFade = "shown"
           THEN [a EXCEPT !.contentFor = v, !.contentAnim = "fadeOut"]
         ELSE TryAnimateBeforeInit([a EXCEPT !.contentFor = v], letThrows)
    [] OTHER -> a

\* stores/animationStore.ts register, called by the page as its elements
\* mount
RegisterElement(e) ==
  /\ anim.mounted
  /\ e \notin anim.elements
  /\ anim' = [anim EXCEPT !.elements = anim.elements \cup {e}]
  /\ UNCHANGED <<imageVars, submissions>>

\* routes/Home.tsx lines 52-56: send("HEADER_READY") once the header
\* elements are registered
SendHeaderReady ==
  /\ anim.mounted
  /\ "header" \in anim.elements
  /\ anim' = Send(anim, "HEADER_READY")
  /\ UNCHANGED <<imageVars, submissions>>

\* React commits a render with the machine's state and runs the effects
\* whose dependency state.value changed; the decidingContent effect's cleanup
\* (line 159) cancels its frame
Render(letThrows) ==
  /\ anim.mounted
  /\ anim.rendered # anim.machine
  /\ anim' = Effects([anim EXCEPT !.rendered = anim.machine,
                                  !.decideFrame = anim.machine = "decidingContent"],
                     anim.machine, letThrows)
  /\ UNCHANGED <<imageVars, submissions>>

\* the header timeline's onComplete (lines 134-136)
HeaderTimelineComplete ==
  /\ anim.mounted
  /\ anim.headerTimeline = "running"
  /\ anim' = [Send(anim, "HEADER_COMPLETE") EXCEPT !.headerTimeline = "done"]
  /\ UNCHANGED <<imageVars, submissions>>

\* lines 144-157: the animation frame of the decidingContent effect
DecideFrame ==
  /\ anim.mounted
  /\ anim.decideFrame
  /\ LET c == anim.content
         event == IF c.hasFeedback THEN "SHOW_FEEDBACK"
                  ELSE IF c.isLoading THEN "SHOW_LOADING"
                  ELSE IF c.hasMission THEN "SHOW_MISSION"
                  ELSE "SHOW_NO_MISSION"
     IN  anim' = [Send(anim, event) EXCEPT !.decideFrame = FALSE]
  /\ UNCHANGED <<imageVars, submissions>>

\* lines 169-173: the loading element's fade-in reaches opacity 1
LoadingFadeDone ==
  /\ anim.mounted
  /\ anim.loadingFade = "running"
  /\ anim' = [anim EXCEPT !.loadingFade = "shown"]
  /\ UNCHANGED <<imageVars, submissions>>

\* an animation frame of tryAnimate, or the onComplete of the loading
\* element's fade-out (lines 227-230, 279-282)
ContentFrame ==
  /\ anim.mounted
  /\ anim.contentAnim \in {"frame", "fadeOut"}
  /\ anim' = TryAnimate([anim EXCEPT !.loadingFade =
                           IF anim.contentAnim = "fadeOut" THEN "gone"
                           ELSE anim.loadingFade])
  /\ UNCHANGED <<imageVars, submissions>>

\* the content timeline's onComplete (lines 200, 255, 307)
ContentTimelineComplete ==
  /\ anim.mounted
  /\ anim.contentAnim = "timeline"
  /\ anim' = [Send(anim, "ANIMATION_COMPLETE") EXCEPT !.contentAnim = "done"]
  /\ UNCHANGED <<imageVars, submissions>>

\* lines 98-102
onMissionLoaded ==
  /\ anim.mounted
  /\ anim.calls < MaxCalls
  /\ LET set == [anim EXCEPT !.content.hasMission = TRUE,
                             !.content.isLoading = FALSE,
                             !.calls = anim.calls + 1]
     IN  anim' = Send(set, "MISSION_LOADED")
  /\ UNCHANGED <<imageVars, submissions>>

\* lines 109-117: the event onLoadingComplete sends; state.value is the
\* one of the render that created the callback (dependency list, line 119)
LoadingCompleteEvent(a, hasMission) ==
  IF a.rendered = "animatingLoading"
    THEN IF hasMission THEN "MISSION_LOADED" ELSE "LOADING_COMPLETE_NO_MISSION"
  ELSE "LOADING_COMPLETE"

\* lines 104-120
onLoadingComplete(hasMission) ==
  /\ anim.mounted
  /\ anim.calls < MaxCalls
  /\ LET set == [anim EXCEPT !.content.isLoading = FALSE,
                             !.content.hasMission = hasMission,
                             !.calls = anim.calls + 1]
     IN  anim' = Send(set, LoadingCompleteEvent(anim, hasMission))
  /\ UNCHANGED <<imageVars, submissions>>

\* lines 122-124
setHasFeedback(hasFeedback) ==
  /\ anim.mounted
  /\ anim.calls < MaxCalls
  /\ anim' = [anim EXCEPT !.content.hasFeedback = hasFeedback,
                          !.calls = anim.calls + 1]
  /\ UNCHANGED <<imageVars, submissions>>

\* line 336: the hook hands out send; a caller sends any event
ExternalSend(event) ==
  /\ anim.mounted
  /\ anim.calls < MaxCalls
  /\ anim' = [Send(anim, event) EXCEPT !.calls = anim.calls + 1]
  /\ UNCHANGED <<imageVars, submissions>>

\* what the browser and React do by themselves: renders, animation frames,
\* timelines running to their end
Scheduled ==
  \/ \E letThrows \in BOOLEAN : Render(letThrows)
  \/ HeaderTimelineComplete
  \/ DecideFrame
  \/ LoadingFadeDone
  \/ ContentFrame
  \/ ContentTimelineComplete

\* SpecAnim: the hook as the page drives it
NextAnim ==
  \/ \E e \in AnimationElementNames : RegisterElement(e)
  \/ SendHeaderReady
  \/ \E letThrows \in BOOLEAN : Render(letThrows)
  \/ HeaderTimelineComplete
  \/ DecideFrame
  \/ LoadingFadeDone
  \/ ContentFrame
  \/ ContentTimelineComplete
  \/ onMissionLoaded
  \/ \E hasMission \in BOOLEAN : onLoadingComplete(hasMission)
  \/ \E hasFeedback \in BOOLEAN : setHasFeedback(hasFeedback)

SpecAnim == Init /\ [][NextAnim]_vars /\ WF_vars(Scheduled)

\* SpecMachine: as SpecAnim, with any event sent from outside as well
NextMachine ==
  \/ \E e \in AnimationElementNames : RegisterElement(e)
  \/ SendHeaderReady
  \/ \E event \in AnimationEvents : ExternalSend(event)
  \/ \E letThrows \in BOOLEAN : Render(letThrows)
  \/ HeaderTimelineComplete
  \/ DecideFrame
  \/ LoadingFadeDone
  \/ ContentFrame
  \/ ContentTimelineComplete
  \/ onMissionLoaded
  \/ \E hasMission \in BOOLEAN : onLoadingComplete(hasMission)
  \/ \E hasFeedback \in BOOLEAN : setHasFeedback(hasFeedback)

SpecMachine == Init /\ [][NextMachine]_vars

(***************************************************************************)
(* netlify/functions/submissions.ts: POST and PATCH                        *)
(***************************************************************************)
\* line 323: ["pending", "approved", "needs_work"]
SubmissionStatuses == { Str("pending"), Str("approved"), Str("needs_work") }

\* line 336: new Date().toISOString(), at the n-th request
IsoString(n) == Str("T" \o ToString(n))

\* a response of the handler: its status and the row in its body, if any
SubmissionResponse(status, row) == [status |-> status, row |-> row]

\* the request bodies of POST
PostBodies ==
  [mission_id : {JUndefined, Num(1), Num(2)},
   what_happened : {JUndefined, Str(""), Str("it rolled"), Str("it fell")}]

\* the request bodies of PATCH
PatchBodies ==
  [id : {JUndefined, Num(1), Num(2), Num(9)},
   status : {JUndefined, JNull, Str(""), Str("pending"), Str("approved"),
             Str("needs_work"), Str("done")},
   review_notes : {JUndefined, Str("bravo")}]

\* lines 294-298: the inserted row; id is SERIAL, status is 'pending',
\* reviewed takes its column default FALSE (schema line 29), review_notes
\* and reviewed_at, which the statement does not name, are NULL
InsertedRow(id, body) ==
  [id |-> Num(id), mission_id |-> body.mission_id,
   what_happened |-> body.what_happened, status |-> Str("pending"),
   reviewed |-> FALSE, review_notes |-> JNull, reviewed_at |-> JNull]

\* lines 268-302; a rejected INSERT is answered by the catch of lines 398-410
SubmissionPost(body, insertFails) ==
  /\ submissions.requests < MaxCalls
  /\ LET n == submissions.requests + 1
         row == InsertedRow(Len(submissions.rows) + 1, body)
     IN  submissions' =
           IF ~Truthy(body.mission_id) \/ ~Truthy(body.what_happened)
             THEN [submissions EXCEPT !.requests = n,
                                      !.resp = <<SubmissionResponse(400, <<>>)>>]
           ELSE IF insertFails
             THEN [submissions EXCEPT !.requests = n,
                                      !.resp = <<SubmissionResponse(500, <<>>)>>]
           ELSE [rows |-> Append(submissions.rows, row), requests |-> n,
                 resp |-> <<SubmissionResponse(201, <<row>>)>>]
  /\ UNCHANGED <<imageVars, anim>>

\* lines 334-336 and 339-348: the row an UPDATE leaves
UpdatedRow(row, body, now) ==
  LET isReviewing ==
        body.status = Str("approved") \/ body.status = Str("needs_work")
  IN  [row EXCEPT !.reviewed = isReviewing,
                  !.review_notes = Or(body.review_notes, JNull),
                  !.status = Or(body.status, Str("pending")),
                  !.reviewed_at = IF isReviewing THEN now ELSE JNull]

\* lines 305-391; sendPushNotifications is awaited inside its own try/catch
\* and touches no submission
SubmissionPatch(body, updateFails) ==
  /\ submissions.requests < MaxCalls
  /\ LET n == submissions.requests + 1
         rows == submissions.rows
         hit == { i \in 1..Len(rows) : rows[i].id = body.id }
         updated == [i \in 1..Len(rows) |->
                       IF i \in hit THEN UpdatedRow(rows[i], body, IsoString(n))
                       ELSE rows[i]]
     IN  submissions' =
           IF ~Truthy(body.id)
             THEN [submissions EXCEPT !.requests = n,
                                      !.resp = <<SubmissionResponse(400, <<>>)>>]
           ELSE IF Truthy(body.status) /\ body.status \notin SubmissionStatuses
             THEN [submissions EXCEPT !.requests = n,
                                      !.resp = <<SubmissionResponse(400, <<>>)>>]
           ELSE IF updateFails
             THEN [submissions EXCEPT !.requests = n,
                                      !.resp = <<SubmissionResponse(500, <<>>)>>]
           ELSE IF hit = {}
             THEN [submissions EXCEPT !.requests = n,
                                      !.resp = <<SubmissionResponse(404, <<>>)>>]
           ELSE [rows |-> updated, requests |-> n,
                 resp |-> <<SubmissionResponse(200,
                              <<updated[CHOOSE i \in hit : TRUE]>>)>>]
  /\ UNCHANGED <<imageVars, anim>>

\* SpecSubmissions: any sequence of POST and PATCH requests
NextSubmissions ==
  \/ \E body \in PostBodies, insertFails \in BOOLEAN :
       SubmissionPost(body, insertFails)
  \/ \E body \in PatchBodies, updateFails \in BOOLEAN :
       SubmissionPatch(body, updateFails)

SpecSubmissions == Init /\ [][NextSubmissions]_vars

(***************************************************************************)
(* Properties                                                              *)
(***************************************************************************)
Sent(r) == reqs[r].pc = "done"
Response(r) == reqs[r].resp[1]
Header(resp, name) ==
  IF name \in DOMAIN resp.headers THEN resp.headers[name] ELSE ""
Has(ops, op) == \E i \in 1..Len(ops) : ops[i] = op
CacheReads == {"cacheRead:hit", "cacheRead:miss", "cacheRead:error"}
ImageReads == {"imageRead:found", "imageRead:absent", "imageRead:error"}
SameRequest(a, b) ==
  /\ reqs[a].key = reqs[b].key
  /\ reqs[a].params = reqs[b].params
  /\ reqs[a].accept = reqs[b].accept
NoTransformParams(params) ==
  params.w = JNull /\ params.h = JNull /\ params.f = JNull
Negotiates(acceptHeader) ==
  Includes(acceptHeader, "image/avif") \/ Includes(acceptHeader, "image/webp")
\* the response is the stored object, unchanged
IsOriginal(r) ==
  /\ reqs[r].orig # <<>>
  /\ Response(r).status = 200
  /\ Response(r).body = <<"bytes", reqs[r].orig[1].data>>
  /\ Header(Response(r), "Content-Type")
       = JsToString(reqs[r].orig[1].metadata.contentType)

\* C1: a request that needs a transformation reads images-cache, under the
\* derived key, before it reads images; a cache hit is answered 200 with
\* X-Cache: HIT and the cached bytes, with no read of images and no transform.
C1_CacheBeforeOriginal ==
  \A r \in ReqIds :
    (reqs[r].pc # "idle" /\ reqs[r].key # ""
       /\ needsTransformation(reqs[r].options)) =>
      /\ reqs[r].pc = "checkCache" => reqs[r].ops = <<>>
      /\ reqs[r].pc # "checkCache" =>
           reqs[r].ops # <<>> /\ reqs[r].ops[1] \in CacheReads
      /\ Has(reqs[r].ops, "cacheRead:hit") =>
           /\ Sent(r)
           /\ reqs[r].ops = <<"cacheRead:hit">>
           /\ Response(r).status = 200
           /\ Header(Response(r), "X-Cache") = "HIT"
           /\ LET cacheKey == generateCacheKey(reqs[r].key, reqs[r].options)
              IN  /\ cacheKey \in DOMAIN cacheStore
                  /\ Response(r).body = <<"bytes", cacheStore[cacheKey].data>>

C1_Witness ==
  \E r \in ReqIds :
    /\ Sent(r)
    /\ reqs[r].ops = <<"cacheRead:hit">>
    /\ Header(Response(r), "X-Cache") = "HIT"

\* C2 as stated: once a request was answered 200 with X-Cache: MISS, every
\* identical request received afterwards is answered HIT without a transform.
C2_SecondRequestAlwaysHit ==
  \A r1 \in ReqIds, r2 \in ReqIds :
    (/\ Sent(r1) /\ Sent(r2)
     /\ reqs[r1].id \in reqs[r2].after
     /\ SameRequest(r1, r2)
     /\ Response(r1).status = 200
     /\ Header(Response(r1), "X-Cache") = "MISS") =>
      /\ Header(Response(r2), "X-Cache") = "HIT"
      /\ ~Has(reqs[r2].ops, "transform:ok")

\* C2 amended: once a request was answered 200 with X-Cache: MISS and the
\* cache write it started has completed, an identical request received
\* afterwards, whose cache read succeeds, is answered HIT without a transform.
C2_HitOnceWriteLanded ==
  \A r1 \in ReqIds, r2 \in ReqIds :
    (/\ Sent(r1)
     /\ reqs[r1].id \in reqs[r2].landed
     /\ SameRequest(r1, r2)
     /\ Response(r1).status = 200
     /\ Header(Response(r1), "X-Cache") = "MISS"
     /\ reqs[r2].pc \notin {"idle", "checkCache"}
     /\ ~Has(reqs[r2].ops, "cacheRead:error")) =>
      /\ Sent(r2)
      /\ Response(r2).status = 200
      /\ Header(Response(r2), "X-Cache") = "HIT"
      /\ reqs[r2].ops = <<"cacheRead:hit">>

C2_Witness ==
  \E r1 \in ReqIds, r2 \in ReqIds :
    /\ Sent(r1) /\ Sent(r2)
    /\ reqs[r1].id \in reqs[r2].landed
    /\ SameRequest(r1, r2)
    /\ Header(Response(r1), "X-Cache") = "MISS"
    /\ Header(Response(r2), "X-Cache") = "HIT"

\* the response of the miss path, from the original read and the options
ExpectedMiss(r) ==
  LET original == reqs[r].orig[1]
      contentType ==
        JsToString(Or(original.metadata.contentType, Str("image/jpeg")))
  IN  [status |-> 200,
       body |-> <<"bytes",
                  Transformed(original.data, reqs[r].options, contentType)>>,
       headers |-> ("Content-Type" :>
                      OutputContentType(reqs[r].options, contentType))
                   @@ ("Cache-Control" :> "public, max-age=31536000, immutable")
                   @@ ("Access-Control-Allow-Origin" :> "*")
                   @@ ("X-Cache" :> "MISS")]

\* C3: as soon as the cache write is started the response (200, transformed
\* bytes, X-Cache: MISS) has been returned, and it is the same while the write
\* is in flight, after it succeeded and after it failed.
C3_MissResponseIndependentOfWrite ==
  \A r \in ReqIds :
    reqs[r].write \in {"pending", "ok", "failed"} =>
      /\ Sent(r)
      /\ Response(r) = ExpectedMiss(r)

C3_Witness ==
  \E r \in ReqIds :
    /\ reqs[r].write = "failed"
    /\ Sent(r)
    /\ Response(r).status = 200
    /\ Header(Response(r), "X-Cache") = "MISS"

C5_MissingKeyIs404 ==
  \A r \in ReqIds :
    (Sent(r) /\ reqs[r].key \notin DOMAIN imageStore) =>
      Response(r).status = 404

\* C6 as stated: a request with no w, h or f parameter, for a key whose object
\* was read from the images store, is answered with that object unchanged,
\* whatever the Accept header.
C6_PassThroughWhateverAccept ==
  \A r \in ReqIds :
    (/\ Sent(r)
     /\ NoTransformParams(reqs[r].params)
     /\ Has(reqs[r].ops, "imageRead:found")) =>
      IsOriginal(r)

\* C6 amended: a request with no w, h or f parameter and an Accept header that
\* names neither image/avif nor image/webp, for a key whose object was read
\* from the images store, is answered 200 with that object's bytes and content
\* type, after that single read.
C6_PassThroughWithoutNegotiation ==
  \A r \in ReqIds :
    (/\ Sent(r)
     /\ NoTransformParams(reqs[r].params)
     /\ ~Negotiates(reqs[r].accept)
     /\ Has(reqs[r].ops, "imageRead:found")) =>
      /\ IsOriginal(r)
      /\ reqs[r].ops = <<"imageRead:found">>

C6_Witness ==
  \E r \in ReqIds :
    /\ Sent(r)
    /\ reqs[r].params = NoParams
    /\ ~Negotiates(reqs[r].accept)
    /\ IsOriginal(r)
    /\ Header(Response(r), "Content-Type") \in TRANSFORMABLE_TYPES

IsInteger(v, lo, hi) == v[1] = "number" /\ v[2] >= lo /\ v[2] <= hi

\* the text is an optional sign followed by digits only
IsIntegerText(p) ==
  /\ p[1] = "chars"
  /\ LET cs == p[2]
         ds == IF cs # <<>> /\ cs[1] \in {"+", "-"} THEN Tail(cs) ELSE cs
     IN  ds # <<>> /\ \A i \in 1..Len(ds) : IsDigit(ds[i])

\* C7: an explicit f among webp, avif, jpeg, jpg, png sets the format (jpg is
\* jpeg) whatever the Accept header; without f the format is avif if Accept
\* names image/avif, else webp if it names image/webp, else undefined.
C7_FormatResolution ==
  parseOut # <<>> =>
    LET f == parseIn.params.f
        format == parseOut[1].format
        avif == Includes(parseIn.accept, "image/avif")
        webp == Includes(parseIn.accept, "image/webp")
    IN  /\ f \in {Str("webp"), Str("avif"), Str("jpeg"), Str("png")} => format = f
        /\ f = Str("jpg") => format = Str("jpeg")
        /\ (f = JNull /\ avif) => format = Str("avif")
        /\ (f = JNull /\ ~avif /\ webp) => format = Str("webp")
        /\ (f = JNull /\ ~avif /\ ~webp) => format = JUndefined

C7_Witness ==
  /\ parseOut # <<>>
  /\ parseIn.params.f = JNull
  /\ Includes(parseIn.accept, "image/avif")
  /\ Includes(parseIn.accept, "image/webp")
  /\ parseOut[1].format = Str("avif")

\* a parsed field that holds a value: neither undefined nor NaN
HasValue(v) == v[1] \in {"number", "string", "function"}

\* C8: the handler takes the cache path exactly when the parsed width, height
\* or format holds a value; otherwise it reads the original only (no cache
\* read, no transform, no cache write) and serves it unchanged; a format that
\* comes from the Accept header alone takes the cache path.
C8_NeedsTransformationGovernsPath ==
  \A r \in ReqIds :
    (reqs[r].pc # "idle" /\ reqs[r].key # "") =>
      LET options == reqs[r].options
          ops == reqs[r].ops
          set == \/ HasValue(options.width)
                 \/ HasValue(options.height)
                 \/ HasValue(options.format)
          cachePath == \/ reqs[r].pc = "checkCache"
                       \/ ops # <<>> /\ ops[1] \in CacheReads
      IN  /\ set <=> cachePath
          /\ ~set =>
               /\ \A i \in 1..Len(ops) : ops[i] \in ImageReads
               /\ reqs[r].write = "none"
               /\ (Sent(r) /\ Has(ops, "imageRead:found")) => IsOriginal(r)
          /\ (NoTransformParams(reqs[r].params) /\ Negotiates(reqs[r].accept))
               => cachePath

C8_Witness ==
  \E r \in ReqIds :
    /\ Sent(r)
    /\ NoTransformParams(reqs[r].params)
    /\ reqs[r].params.q # JNull
    /\ reqs[r].params.fit # JNull
    /\ ~Negotiates(reqs[r].accept)
    /\ reqs[r].ops = <<"imageRead:found">>
    /\ IsOriginal(r)

\* C9: for w, h and q given as integers (zero and negatives included) the
\* parsed width and height are integers in 1..2000 and the parsed quality an
\* integer in 1..100; a fit outside the five valid names resolves to cover.
C9_IntegerParamsAreClamped ==
  parseOut # <<>> =>
    LET params == parseIn.params
        options == parseOut[1]
    IN  /\ IsIntegerText(params.w) => IsInteger(options.width, 1, 2000)
        /\ IsIntegerText(params.h) => IsInteger(options.height, 1, 2000)
        /\ IsIntegerText(params.q) => IsInteger(options.quality, 1, 100)
        /\ (params.fit = JNull \/ params.fit[2] \notin validFits)
             => options.fit = "cover"
        /\ options.fit \in validFits

C9_Witness ==
  /\ parseOut # <<>>
  /\ parseIn.params.w = Param(<<"-", "5">>)
  /\ parseIn.params.q = Param(<<"1", "0", "1">>)
  /\ parseIn.params.fit = Str("stretch")
  /\ parseOut[1].width = Num(1)
  /\ parseOut[1].quality = Num(100)
  /\ parseOut[1].fit = "cover"

\* C10: parseTransformOptions returns a quality that is an integer in 1..100
\* and a width and height that are undefined or integers in 1..2000; a w or h
\* that is present but not an integer gives undefined, a q that is present but
\* not an integer gives 80.
C10_ParseNeverOutOfRange ==
  parseOut # <<>> =>
    LET params == parseIn.params
        options == parseOut[1]
    IN  /\ IsInteger(options.quality, 1, 100)
        /\ options.width = JUndefined \/ IsInteger(options.width, 1, 2000)
        /\ options.height = JUndefined \/ IsInteger(options.height, 1, 2000)
        /\ (params.w # JNull /\ ~IsIntegerText(params.w))
             => options.width = JUndefined
        /\ (params.h # JNull /\ ~IsIntegerText(params.h))
             => options.height = JUndefined
        /\ (params.q # JNull /\ ~IsIntegerText(params.q))
             => options.quality = Num(DEFAULT_QUALITY)

\* the segments of a derivative key, as the specification lists them
CacheKeySegments(K, S) ==
  <<K>>
    \o (IF HasValue(S.width) \/ HasValue(S.height)
          THEN <<(IF HasValue(S.width) THEN JsToString(S.width) ELSE "auto")
                   \o "x"
                   \o (IF HasValue(S.height) THEN JsToString(S.height)
                                             ELSE "auto")>>
          ELSE <<>>)
    \o <<"q" \o JsToString(S.quality)>>
    \o (IF HasValue(S.format) THEN <<JsToString(S.format)>> ELSE <<>>)
    \o <<S.fit>>

\* C11: generateCacheKey(K, S) is "transformed/" followed by the "-"-joined
\* segments K, <w|auto>x<h|auto> (only if width or height is set), q<quality>
\* (always), <format> (only if format is set) and <fit> (always); it depends on
\* K and S alone.
C11_CacheKeyLayout ==
  Len(parseOut) = 2 =>
    parseOut[2].cacheKey =
      "transformed/"
        \o Join(CacheKeySegments(parseOut[2].originalKey, parseOut[1]), "-")

C11_Witness ==
  /\ Len(parseOut) = 2
  /\ parseIn.params.w = JNull
  /\ parseIn.params.h = Param(<<"9", "9", "9", "9">>)
  /\ parseIn.params.f = Str("jpg")
  /\ parseIn.params.q = JNull
  /\ parseIn.params.fit = Str("contain")
  /\ parseOut[2].originalKey = "a-b"
  /\ parseOut[2].cacheKey = "transformed/a-b-autox2000-q80-jpeg-contain"

\* the content type under which the handler treats the original it read
OriginalType(r) ==
  JsToString(Or(reqs[r].orig[1].metadata.contentType, Str("image/jpeg")))

HasHeader(resp, name) == name \in DOMAIN resp.headers

\* C12 as stated: every 200 response to a request that asks for a
\* transformation carries X-Cache: HIT or MISS, and no response to a request
\* that asks for none carries X-Cache.
C12_XCacheOnEveryTransformRequest ==
  \A r \in ReqIds :
    Sent(r) =>
      /\ (needsTransformation(reqs[r].options) /\ Response(r).status = 200)
           => Header(Response(r), "X-Cache") \in {"HIT", "MISS"}
      /\ ~needsTransformation(reqs[r].options)
           => ~HasHeader(Response(r), "X-Cache")

\* C12 amended: a 200 response to a request that asks for a transformation
\* carries X-Cache: HIT or MISS unless the original read is of a
\* non-transformable type, which is served unchanged without X-Cache; no
\* response to a request that asks for none carries X-Cache.
C12_XCacheUnlessNotTransformable ==
  \A r \in ReqIds :
    Sent(r) =>
      /\ (needsTransformation(reqs[r].options) /\ Response(r).status = 200) =>
           IF reqs[r].orig # <<>> /\ OriginalType(r) \notin TRANSFORMABLE_TYPES
             THEN ~HasHeader(Response(r), "X-Cache") /\ IsOriginal(r)
             ELSE Header(Response(r), "X-Cache") \in {"HIT", "MISS"}
      /\ ~needsTransformation(reqs[r].options)
           => ~HasHeader(Response(r), "X-Cache")

C12_Witness ==
  \E r \in ReqIds :
    /\ Sent(r)
    /\ needsTransformation(reqs[r].options)
    /\ Response(r).status = 200
    /\ reqs[r].orig # <<>>
    /\ OriginalType(r) = "video/mp4"
    /\ ~HasHeader(Response(r), "X-Cache")

\* C13: every response of the read endpoint, the 404 responses included,
\* carries Access-Control-Allow-Origin: * and
\* Cache-Control: public, max-age=31536000, immutable.
C13_EveryResponseHasCorsAndCacheControl ==
  \A r \in ReqIds :
    Sent(r) =>
      /\ Header(Response(r), "Access-Control-Allow-Origin") = "*"
      /\ Header(Response(r), "Cache-Control")
           = "public, max-age=31536000, immutable"

\* C14: an original whose stored content type is outside TRANSFORMABLE_TYPES,
\* once read, is answered 200 with its bytes and its content type unchanged,
\* whatever the query and the Accept header; it never reaches the transform
\* engine and never starts a cache write.
C14_NonTransformableBypassesEngine ==
  \A r \in ReqIds :
    (reqs[r].orig # <<>> /\ OriginalType(r) \notin TRANSFORMABLE_TYPES) =>
      /\ Sent(r)
      /\ IsOriginal(r)
      /\ ~HasHeader(Response(r), "X-Cache")
      /\ \A i \in 1..Len(reqs[r].ops) :
           reqs[r].ops[i] \in {"cacheRead:miss", "cacheRead:error",
                               "imageRead:found"}
      /\ reqs[r].write = "none"
      /\ \A w \in cacheWrites : w.id # reqs[r].id

C14_Witness ==
  \E r \in ReqIds :
    /\ Sent(r)
    /\ reqs[r].params.w = Param(<<"1", "0", "0">>)
    /\ reqs[r].params.f = Str("webp")
    /\ Negotiates(reqs[r].accept)
    /\ reqs[r].orig # <<>>
    /\ reqs[r].orig[1].metadata.contentType = Str("video/mp4")
    /\ IsOriginal(r)

\* the size ceilings and the allow-list, as the specification gives them
ImageCeiling == 5 * 1024 * 1024
VideoCeiling == 100 * 1024 * 1024
ImageTypes == {"image/jpeg", "image/png", "image/gif", "image/webp"}
VideoTypes == {"video/mp4", "video/webm", "video/quicktime", "video/x-m4v"}

\* C15: an upload writes to the images store only when it is answered 201;
\* OPTIONS is answered 204, any other method but POST 405, a file of a type
\* outside the allow-list or larger than the ceiling of its type (5 MB image,
\* 100 MB video) 400, a processing failure 500, and in each of these cases the
\* store is left as it was.
C15_StoreWrittenOnlyOn201 ==
  [][\A m \in Methods, f \in UploadFileArgs, t \in UploadTimestamps,
        id \in RandomIds, setFails \in BOOLEAN :
       Upload(m, f, t, id, setFails) =>
         LET status == uploadResp'[1].status
             file == f[1]
             posted == m = "POST" /\ f # <<>>
             allowed == file.type \in ImageTypes \cup VideoTypes
             tooBig == file.size > (IF file.type \in VideoTypes
                                      THEN VideoCeiling ELSE ImageCeiling)
             fails == \/ setFails
                      \/ /\ file.type \in ImageTypes \ {"image/gif"}
                         /\ file.id \notin DecodableIds
         IN  /\ m = "OPTIONS" => status = 204
             /\ m \notin {"OPTIONS", "POST"} => status = 405
             /\ (posted /\ ~allowed) => status = 400
             /\ (posted /\ allowed /\ tooBig) => status = 400
             /\ (posted /\ allowed /\ ~tooBig /\ fails) => status = 500
             /\ (posted /\ allowed /\ ~tooBig /\ ~fails) => status = 201
             /\ status # 201 => imageStore' = imageStore
             /\ imageStore' # imageStore => status = 201]_vars

C15_Witness ==
  /\ uploads = 2
  /\ uploadResp # <<>>
  /\ uploadResp[1].status = 400
  /\ DOMAIN imageStore = {"uploads/1-ab.mp4"}
  /\ imageStore["uploads/1-ab.mp4"].metadata.originalName = <<"clip", "mp4">>

\* C16: on a successful upload a non-GIF image (declared image/jpeg, image/png
\* or image/webp, whatever its file name) is stored re-encoded, with content
\* type image/webp, under a key ending in ".webp"; a GIF or a video is stored
\* with the uploaded bytes and its declared type as content type; in both
\* cases the metadata is {contentType, originalName}.
C16_StoredFormOfAnUpload ==
  [][\A m \in Methods, f \in UploadFileArgs, t \in UploadTimestamps,
        id \in RandomIds, setFails \in BOOLEAN :
       (Upload(m, f, t, id, setFails) /\ uploadResp'[1].status = 201) =>
         LET file == f[1]
             key == uploadResp'[1].key
             stem == "uploads/" \o ToString(t) \o "-" \o id
         IN  /\ key \in DOMAIN imageStore'
             /\ DOMAIN imageStore'[key].metadata = {"contentType", "originalName"}
             /\ imageStore'[key].metadata.originalName = file.name
             /\ IF file.type \in ImageTypes \ {"image/gif"}
                  THEN /\ imageStore'[key].metadata.contentType = Str("image/webp")
                       /\ key = stem \o ".webp"
                       /\ imageStore'[key].data.id = file.id
                       /\ Len(imageStore'[key].data.pipe) = 1
                       /\ imageStore'[key].data.pipe[1].codec = "webp"
                  ELSE /\ imageStore'[key].metadata.contentType = Str(file.type)
                       /\ imageStore'[key].data = Bytes(file.id, <<>>)]_vars

C16_Witness ==
  /\ uploadResp # <<>>
  /\ uploadResp[1].status = 201
  /\ uploadResp[1].key = "uploads/2-ab.webp"
  /\ "uploads/2-ab.webp" \in DOMAIN imageStore
  /\ imageStore["uploads/2-ab.webp"].metadata
       = [contentType |-> Str("image/webp"), originalName |-> <<"shot", "png">>]

\* C17: an upload answered 201 returns url = "/images/" followed by key, with
\* the object already stored under key; the read handler extracts exactly key
\* from url; and a GET of url that asks for no transformation, its read of the
\* images store succeeding, is answered 200 with the stored bytes and the
\* stored content type.
C17_ReturnedUrlServesTheUpload ==
  [][/\ \A m \in Methods, f \in UploadFileArgs, t \in UploadTimestamps,
          id \in RandomIds, setFails \in BOOLEAN :
         (Upload(m, f, t, id, setFails) /\ uploadResp'[1].status = 201) =>
           /\ uploadResp'[1].url = "/images/" \o uploadResp'[1].key
           /\ uploadResp'[1].key \in DOMAIN imageStore'
     /\ \A url \in ReturnedUrls : \A p \in PathnameParts(url) :
         Receive(1, p, NoParams, NoAccept) =>
           reqs'[1].key = uploadResp[1].key
     /\ FetchOriginal(1, FALSE) =>
           /\ reqs'[1].pc = "done"
           /\ reqs'[1].resp[1].status = 200
           /\ reqs'[1].resp[1].body = <<"bytes", imageStore[reqs[1].key].data>>
           /\ reqs'[1].resp[1].headers["Content-Type"]
                = JsToString(imageStore[reqs[1].key].metadata.contentType)]_vars

\* C18: an object written under a key of the images store keeps its bytes and
\* its metadata and is never deleted, whatever uploads and reads follow: an
\* upload always writes under a key that was not in the store.
C18_StoredOriginalsAreImmutable ==
  [][\A k \in DOMAIN imageStore :
       /\ k \in DOMAIN imageStore'
       /\ imageStore'[k] = imageStore[k]]_vars

\* two invocations, each received before the other was answered
Concurrent(a, b) ==
  /\ a # b
  /\ reqs[a].id \notin reqs[b].after
  /\ reqs[b].id \notin reqs[a].after

\* the invocation missed the cache and read the original
MissedAndRead(r) ==
  /\ Len(reqs[r].ops) >= 2
  /\ reqs[r].ops[1] = "cacheRead:miss"
  /\ reqs[r].ops[2] = "imageRead:found"

HoldsDerivative(r) ==
  generateCacheKey(reqs[r].key, reqs[r].options) \in DOMAIN cacheStore

\* a started cache write settles; if it did not fail the entry is in the cache
WriteLeadsToEntry ==
  \A r \in ReqIds :
    (reqs[r].write = "pending") ~>
      (reqs[r].write = "failed" \/ (reqs[r].write = "ok" /\ HoldsDerivative(r)))

\* no step removes or replaces the key of a cache entry
CacheOnlyGrows ==
  [][DOMAIN cacheStore \subseteq DOMAIN cacheStore']_vars

\* C20 as stated: a started cache write that is executed and does not fail
\* puts the entry in images-cache; no entry is ever removed; and from then on
\* every request for the same key and spec is answered X-Cache: HIT.
C20_EventuallyPopulatedThenAlwaysHit ==
  /\ WriteLeadsToEntry
  /\ CacheOnlyGrows
  /\ [][\A r \in ReqIds, readFails \in BOOLEAN :
          (CacheLookup(r, readFails) /\ HoldsDerivative(r)) =>
            /\ reqs'[r].pc = "done"
            /\ reqs'[r].resp[1].headers["X-Cache"] = "HIT"]_vars

\* C20 amended: a started cache write that is executed and does not fail puts
\* the entry in images-cache; no entry is ever removed; and from then on every
\* request for the same key and spec whose cache read succeeds is answered
\* 200 with X-Cache: HIT and the cached bytes.
C20_EventuallyPopulatedThenHitIfRead ==
  /\ WriteLeadsToEntry
  /\ CacheOnlyGrows
  /\ [][\A r \in ReqIds :
          (CacheLookup(r, FALSE) /\ HoldsDerivative(r)) =>
            /\ reqs'[r].pc = "done"
            /\ reqs'[r].resp[1].status = 200
            /\ reqs'[r].resp[1].headers["X-Cache"] = "HIT"
            /\ reqs'[r].resp[1].body =
                 <<"bytes",
                   cacheStore[generateCacheKey(reqs[r].key,
                                               reqs[r].options)].data>>]_vars

C20_Witness ==
  \E a \in ReqIds, b \in ReqIds :
    /\ reqs[a].write = "ok"
    /\ reqs[a].id \in reqs[b].landed
    /\ SameRequest(a, b)
    /\ Sent(b)
    /\ reqs[b].ops = <<"cacheRead:hit">>
    /\ HoldsDerivative(b)
    /\ cacheWrites = {}

\* the file name, split on ".", has an extension
HasExtension(name) == Len(name) >= 2 /\ name[Len(name)] # ""

\* C22: for a GIF or a video answered 201 the key ends in the extension of the
\* original file name, and when the file name has no extension it ends in
\* "mp4" for a video and in "jpg" for a GIF.
C22_ExtensionFromFileNameOrFallback ==
  [][\A m \in Methods, f \in UploadFileArgs, t \in UploadTimestamps,
        id \in RandomIds, setFails \in BOOLEAN :
       (/\ Upload(m, f, t, id, setFails)
        /\ uploadResp'[1].status = 201
        /\ f[1].type \in {"image/gif"} \cup VideoTypes) =>
         LET name == f[1].name
             ext == IF HasExtension(name) THEN name[Len(name)]
                    ELSE IF f[1].type \in VideoTypes THEN "mp4" ELSE "jpg"
         IN  uploadResp'[1].key =
               "uploads/" \o ToString(t) \o "-" \o id \o "." \o ext]_vars

\* what the transform path stores for the original now under the key of r
DerivativeOfStored(r) ==
  LET original == imageStore[reqs[r].key]
      contentType ==
        JsToString(Or(original.metadata.contentType, Str("image/jpeg")))
  IN  [data |-> Transformed(original.data, reqs[r].options, contentType),
       metadata |-> [contentType |->
                       Str(OutputContentType(reqs[r].options, contentType))]]

\* C23: the entry of images-cache under generateCacheKey(K, S) is the bytes
\* and contentType that the transform path produces for the original stored
\* under K with spec S, so a request answered HIT gets the status, body and
\* Content-Type of the MISS answer to the same request.
C23_CacheEntryIsTheDerivative ==
  \A r \in ReqIds :
    (/\ reqs[r].pc # "idle"
     /\ needsTransformation(reqs[r].options)
     /\ HoldsDerivative(r)) =>
      /\ reqs[r].key \in DOMAIN imageStore
      /\ cacheStore[generateCacheKey(reqs[r].key, reqs[r].options)]
           = DerivativeOfStored(r)
      /\ (Sent(r) /\ reqs[r].ops = <<"cacheRead:hit">>) =>
           /\ Response(r).status = 200
           /\ Response(r).body = <<"bytes", DerivativeOfStored(r).data>>
           /\ Str(Header(Response(r), "Content-Type"))
                = DerivativeOfStored(r).metadata.contentType

\* the codec that encoded a payload: that of the last step applied to it
CodecOf(data) == data.pipe[Len(data.pipe)].codec

\* C24: on the transform path the Content-Type of the response and the
\* contentType written with the cached derivative name the codec that encoded
\* the bytes, for every transformable source type and every spec.
C24_ContentTypeNamesTheCodec ==
  /\ \A r \in ReqIds :
       (Sent(r) /\ Has(reqs[r].ops, "transform:ok")) =>
         Header(Response(r), "Content-Type")
           = "image/" \o CodecOf(Response(r).body[2])
  /\ \A w \in cacheWrites :
       w.entry.metadata.contentType = Str("image/" \o CodecOf(w.entry.data))
  /\ \A k \in DOMAIN cacheStore :
       cacheStore[k].metadata.contentType
         = Str("image/" \o CodecOf(cacheStore[k].data))

\* C25: two requests that both need a transformation and differ in the key
\* or in the parsed width, height, quality, format or fit never derive the
\* same cache key.
C25_CacheKeyInjective ==
  \A a \in ReqIds, b \in ReqIds :
    (/\ reqs[a].pc # "idle" /\ reqs[b].pc # "idle"
     /\ reqs[a].key # "" /\ reqs[b].key # ""
     /\ needsTransformation(reqs[a].options)
     /\ needsTransformation(reqs[b].options)
     /\ \/ reqs[a].key # reqs[b].key
        \/ reqs[a].options # reqs[b].options) =>
      generateCacheKey(reqs[a].key, reqs[a].options)
        # generateCacheKey(reqs[b].key, reqs[b].options)

\* the invocation went down the transform path to its end: no entry came out
\* of the cache lookup, the original was read and is of a transformable type,
\* a transformation is asked for and the transform succeeded
OnTransformPath(req) ==
  /\ needsTransformation(req.options)
  /\ req.ops \in {<<"cacheRead:miss", "imageRead:found", "transform:ok",
                     "cacheWrite">>,
                   <<"cacheRead:error", "imageRead:found", "transform:ok",
                     "cacheWrite">>}
  /\ req.orig # <<>>
  /\ JsToString(Or(req.orig[1].metadata.contentType, Str("image/jpeg")))
       \in TRANSFORMABLE_TYPES
  /\ req.resp[1].status = 200
  /\ req.resp[1].headers["X-Cache"] = "MISS"

\* C26: no step of the read path changes the images store; a write to
\* images-cache is started only by an invocation at the end of the transform
\* path, and images-cache changes only when such a write lands; an invocation
\* answered 404, by the original unchanged or from the cache leaves both
\* stores and the writes in flight as they were.
C26_ReadPathWritesOnlyDerivatives ==
  [][/\ imageStore' # imageStore => uploads' = uploads + 1
     /\ \A w \in cacheWrites' \ cacheWrites :
          \E r \in ReqIds :
            /\ reqs[r].pc = "transform"
            /\ reqs'[r].id = w.id
            /\ OnTransformPath(reqs'[r])
            /\ w.key = generateCacheKey(reqs'[r].key, reqs'[r].options)
     /\ cacheStore' # cacheStore =>
          \E w \in cacheWrites \ cacheWrites' :
            cacheStore' = StoreSet(cacheStore, w.key, w.entry)
     /\ \A r \in ReqIds :
          (/\ reqs[r] # reqs'[r]
           /\ reqs'[r].pc = "done"
           /\ reqs[r].pc \notin {"done", "idle"} \/ reqs'[r].id # reqs[r].id
           /\ ~OnTransformPath(reqs'[r])) =>
            /\ imageStore' = imageStore
            /\ cacheStore' = cacheStore
            /\ cacheWrites' = cacheWrites]_vars

C26_Witness ==
  \E r \in ReqIds :
    /\ Sent(r)
    /\ reqs[r].ops = <<"cacheRead:miss", "imageRead:found", "transform:error">>
    /\ Response(r).status = 404
    /\ imageStore # <<>>
    /\ cacheStore = <<>>
    /\ cacheWrites = {}
    /\ received = 1

\* the format names the f parameter recognises
RecognisedFormats == {Str("webp"), Str("avif"), Str("jpeg"), Str("jpg"), Str("png")}

\* C27: when f is present but is not a recognised format name the parsed
\* format is undefined whatever the Accept header, so that with no w and no h
\* no transformation is asked for and the original is served untransformed.
C27_UnknownFormatIsIgnored ==
  parseOut # <<>> =>
    LET params == parseIn.params
        options == parseOut[1]
    IN  (params.f # JNull /\ params.f \notin RecognisedFormats) =>
          /\ options.format = JUndefined
          /\ (params.w = JNull /\ params.h = JNull)
               => ~needsTransformation(options)

\* a call that reports the end of loading
LoadingCompletes ==
  \/ onMissionLoaded
  \/ \E hasMission \in BOOLEAN : onLoadingComplete(hasMission)

\* C28: once the machine is in animatingLoading, a call that reports the end
\* of loading (onMissionLoaded, or onLoadingComplete with either argument),
\* made at any point between the machine's state updates and the renders,
\* moves it to animatingMission or animatingNoMission; from there it reaches
\* complete, and it never stays in animatingLoading once loading is over.
C28_LoadingCompletionReachesComplete ==
  /\ [][(anim.machine = "animatingLoading" /\ LoadingCompletes)
          => anim'.machine \in {"animatingMission", "animatingNoMission"}]_vars
  /\ (anim.machine = "animatingLoading" /\ ~anim.content.isLoading)
       ~> (anim.machine = "complete")
  /\ [](anim.machine = "animatingLoading"
         => [](anim.machine \in {"animatingMission", "animatingNoMission"}
                 => <>(anim.machine = "complete")))

\* C29: the machine only follows its documented flow.  No content state is
\* entered before HEADER_COMPLETE has been sent; no event moves the machine
\* out of complete; and when the content decision is taken with hasFeedback
\* true the machine goes to animatingFeedback, whatever isLoading and
\* hasMission are, and leaves animatingFeedback only for complete.
C29_DocumentedFlow ==
  /\ [](anim.machine \in ContentStates => anim.headerComplete)
  /\ [][anim.machine = "complete" => anim'.machine = "complete"]_vars
  /\ [][(DecideFrame /\ anim.machine = "decidingContent"
           /\ anim.content.hasFeedback)
          => anim'.machine = "animatingFeedback"]_vars
  /\ [][anim.machine = "animatingFeedback"
          => anim'.machine \in {"animatingFeedback", "complete"}]_vars

\* content was decided with hasFeedback true while loading was still going
\* on, the feedback animation ran and the machine is complete
C29_Witness ==
  /\ anim.machine = "complete"
  /\ anim.rendered = "complete"
  /\ anim.contentFor = "animatingFeedback"
  /\ anim.content.hasFeedback
  /\ anim.content.isLoading

\* the statuses a review gives
ReviewedStatuses == { Str("approved"), Str("needs_work") }

\* a PATCH body that carries a status, and one outside the three statuses
CarriesStatus(body) == body.status # JUndefined /\ body.status # JNull
OutsideStatus(body) ==
  CarriesStatus(body)
    /\ body.status \notin {Str("pending"), Str("approved"), Str("needs_work")}

\* every row is reviewed exactly when its status is approved or needs_work,
\* and exactly when reviewed_at is set
RowsConsistent(rows) ==
  \A i \in 1..Len(rows) :
    /\ rows[i].reviewed <=> rows[i].status \in ReviewedStatuses
    /\ rows[i].reviewed <=> rows[i].reviewed_at # JNull

\* a row that a POST adds is pending
NewRowsArePending ==
  Len(submissions'.rows) > Len(submissions.rows)
    => submissions'.rows[Len(submissions'.rows)].status = Str("pending")

\* a PATCH whose status is outside the three statuses: 400, no row changed
InvalidStatusRefused ==
  \A body \in PatchBodies :
    (SubmissionPatch(body, FALSE) /\ OutsideStatus(body))
      => /\ submissions'.resp[1].status = 400
         /\ submissions'.rows = submissions.rows

\* a PATCH without status that updates a row leaves it pending, unreviewed
NoStatusResets ==
  \A body \in PatchBodies :
    (SubmissionPatch(body, FALSE) /\ ~CarriesStatus(body)
       /\ submissions'.resp[1].status = 200)
      => LET row == submissions'.resp[1].row[1]
         IN  /\ row.status = Str("pending")
             /\ ~row.reviewed
             /\ row.reviewed_at = JNull

\* C30: after any sequence of POST and PATCH requests every row is reviewed
\* exactly when its status is approved or needs_work and exactly when
\* reviewed_at is non-null; a new submission is pending; a PATCH with a
\* status outside {pending, approved, needs_work} is answered 400 and
\* changes no row; a PATCH without status resets the row to pending and
\* unreviewed.
C30_SubmissionRowsStayConsistent ==
  /\ [](RowsConsistent(submissions.rows))
  /\ [][NewRowsArePending]_vars
  /\ [][InvalidStatusRefused]_vars
  /\ [][NoStatusResets]_vars

====
